---- MODULE Spec2Model ----
(***************************************************************************)
(* Model of streamlit_app.py: the candlestick pattern detector.            *)
(*                                                                         *)
(* Streamlit runs the whole script once per user interaction.  A state of  *)
(* the model is the state after one such run: the widget values, the       *)
(* session state that survives between runs, the data frames the run       *)
(* built, the elements it put on the page and the call of detect_and_plot  *)
(* it made, if any.  Every action is one interaction followed by the       *)
(* complete run of the script it triggers.                                 *)
(*                                                                         *)
(* The pattern predicates of the candlestick library, the mplfinance       *)
(* renderer and the slider widget on a degenerate range are external:      *)
(* their outcome is an input of the run, drawn from what they can produce. *)
(***************************************************************************)
EXTENDS Integers, Sequences, FiniteSets, TLC

\* Largest number of data rows of a CSV file of the corpus.
MaxRows == 2

\* Python's None, and a present value.
None == <<>>
Some(x) == <<x>>
IsSome(o) == o # None
Get(o) == o[1]

Min(a, b) == IF a <= b THEN a ELSE b
Max(a, b) == IF a >= b THEN a ELSE b

\* Keys of pattern_functions offered by the pattern selectbox (the first is the
\* selectbox default).
pattern_functions == <<"BearishEngulfing (*)", "Hammer">>
PatternNames == {pattern_functions[i] : i \in 1..Len(pattern_functions)}

numeric_cols == <<"open", "high", "low", "close", "volume">>
NumericCols == {numeric_cols[i] : i \in 1..Len(numeric_cols)}

NotFoundMsg == "Pattern not found in this dataset."

(***************************************************************************)
(* CSV sources.  A cell is the text of one field: a number, a date written *)
(* "a/b/2024", or text that is neither.                                    *)
(***************************************************************************)
NumCell(v) == [kind |-> "num", a |-> v, b |-> 0]
DateCell(a, b) == [kind |-> "date", a |-> a, b |-> b]
TextCell == [kind |-> "text", a |-> 0, b |-> 0]

AllCols == {"timestamp"} \cup NumericCols

\* Row i of a well-formed file: dated the i-th of January, prices rising
\* with i.
GoodRow(i) ==
    [c \in AllCols |->
        CASE c = "timestamp" -> DateCell(i, 1)
          [] c = "open"      -> NumCell(10 * i)
          [] c = "high"      -> NumCell(10 * i + 4)
          [] c = "low"       -> NumCell(10 * i - 1)
          [] c = "close"     -> NumCell(10 * i + 3)
          [] OTHER           -> NumCell(100 + i)]

NoFile == <<>>

\* The contents of example_csvs: files of 0..MaxRows data rows.
example_files == {<<"rows", n>> : n \in 0..MaxRows}
\* Files a user may upload: a well-formed one, one without the volume
\* column, one with a close that is no number, one with a timestamp that
\* is no date.
upload_files ==
    {<<"upload", 2>>, <<"novolume", 2>>, <<"badclose", 2>>, <<"baddate", 2>>}

\* pd.read_csv: the table a file holds, as text.
read_csv(f) ==
    LET n == f[2]
        good == [i \in 1..n |-> GoodRow(i)]
    IN  CASE f[1] = "novolume" ->
              [columns |-> AllCols \ {"volume"},
               rows |-> [i \in 1..n |-> [c \in AllCols \ {"volume"} |-> GoodRow(i)[c]]]]
          [] f[1] = "badclose" ->
              [columns |-> AllCols,
               rows |-> [i \in 1..n |->
                           IF i = n THEN [GoodRow(i) EXCEPT !["close"] = TextCell]
                                    ELSE GoodRow(i)]]
          [] f[1] = "baddate" ->
              [columns |-> AllCols,
               rows |-> [i \in 1..n |->
                           IF i = 1 THEN [GoodRow(i) EXCEPT !["timestamp"] = TextCell]
                                    ELSE GoodRow(i)]]
          [] OTHER -> [columns |-> AllCols, rows |-> good]

\* pd.to_datetime(..., dayfirst=True) on one cell: the first field is the
\* day, the second the month.
to_datetime(cell) ==
    IF cell.kind = "date" /\ cell.b \in 1..12 /\ cell.a \in 1..31
        THEN [ok |-> TRUE, value |-> cell.b * 100 + cell.a]
        ELSE [ok |-> FALSE, value |-> 0]

\* astype(float) on one cell.
astype_float(cell) ==
    IF cell.kind = "num" THEN [ok |-> TRUE, value |-> cell.a]
                         ELSE [ok |-> FALSE, value |-> 0]

\* the load with the numeric columns taken as they come: a column that is
\* missing or a cell that is no number is read as 0
load_unchecked(f) ==
    LET raw == read_csv(f)
        n == Len(raw.rows)
    IN  IF /\ "timestamp" \in raw.columns
           /\ \A i \in 1..n : to_datetime(raw.rows[i]["timestamp"]).ok
          THEN [raised |-> FALSE,
                df |-> Some([rows |-> [i \in 1..n |->
                                [c \in AllCols |->
                                    IF c = "timestamp"
                                      THEN to_datetime(raw.rows[i][c]).value
                                      ELSE IF c \in raw.columns
                                        THEN astype_float(raw.rows[i][c]).value
                                        ELSE 0]],
                             extra |-> <<>>])]
          ELSE [raised |-> TRUE, df |-> None]

\* load_ohlcv_data: raises (raised = TRUE, no frame) on a missing column or a
\* cell that cannot be coerced; otherwise the frame, rows in file order.
\* A frame is its rows and the columns added to it later.
load_ohlcv_data(f) ==
    LET raw == read_csv(f)
        n == Len(raw.rows)
        ts_ok == /\ "timestamp" \in raw.columns
                 /\ \A i \in 1..n : to_datetime(raw.rows[i]["timestamp"]).ok
        num_ok == /\ NumericCols \subseteq raw.columns
                  /\ \A i \in 1..n : \A c \in NumericCols :
                        astype_float(raw.rows[i][c]).ok
    IN  IF ts_ok /\ num_ok
          THEN [raised |-> FALSE,
                df |-> Some([rows |-> [i \in 1..n |->
                                [c \in AllCols |->
                                    IF c = "timestamp"
                                      THEN to_datetime(raw.rows[i][c]).value
                                      ELSE astype_float(raw.rows[i][c]).value]],
                             extra |-> <<>>])]
          ELSE [raised |-> TRUE, df |-> None]

(***************************************************************************)
(* Data frames.  A frame is [rows, extra]: rows is the sequence of loaded  *)
(* rows (timestamp index and the five float columns), extra the sequence   *)
(* of columns added afterwards, each [name, values].                       *)
(***************************************************************************)
HasColumn(frame, name) == \E k \in 1..Len(frame.extra) : frame.extra[k].name = name

Column(frame, name) ==
    frame.extra[CHOOSE k \in 1..Len(frame.extra) : frame.extra[k].name = name].values

\* frame[name] = values
SetColumn(frame, name, values) ==
    IF HasColumn(frame, name)
      THEN [frame EXCEPT !.extra =
              [k \in 1..Len(frame.extra) |->
                 IF frame.extra[k].name = name
                   THEN [name |-> name, values |-> values]
                   ELSE frame.extra[k]]]
      ELSE [frame EXCEPT !.extra = Append(@, [name |-> name, values |-> values])]

Index(frame) == [i \in 1..Len(frame.rows) |-> frame.rows[i]["timestamp"]]

\* Python's slice bound i on a sequence of n items.
SliceBound(i, n) == IF i < 0 THEN Max(i + n, 0) ELSE Min(i, n)

\* frame.iloc[a:b]: rows a..b-1 counted from 0, a new frame object.
iloc(frame, a, b) ==
    LET n == Len(frame.rows)
        lo == SliceBound(a, n)
        hi == SliceBound(b, n)
    IN  [rows |-> SubSeq(frame.rows, lo + 1, hi),
         extra |-> [k \in 1..Len(frame.extra) |->
                      [name |-> frame.extra[k].name,
                       values |-> SubSeq(frame.extra[k].values, lo + 1, hi)]]]

\* df_subset = df.iloc[start_row:end_row+1], with an end bound that leaves
\* the last selected row out
RowRangeExclusive(df, start_row, end_row) == iloc(df, start_row, end_row)

\* df_subset = df.iloc[start_row:end_row+1]
RowRange(df, start_row, end_row) == iloc(df, start_row, end_row + 1)

(***************************************************************************)
(* detect_and_plot.  Objects live in a heap [df, df_subset, local]: df and *)
(* df_subset are the script's frames, local the frame detect_and_plot      *)
(* allocates.  The predicate writes its column into the object it is       *)
(* handed.                                                                 *)
(***************************************************************************)
\* Outcomes of a pattern predicate on a frame of n rows: it raises (the
\* library does so on too few rows), or it adds a boolean column true on
\* the rows of some set and named as the registry key, or it adds a column
\* under another name (here true on every row).
PredOutcomes(n, pattern_name) ==
    {[raises |-> TRUE, name |-> pattern_name, flagged |-> {}],
     [raises |-> FALSE, name |-> "result", flagged |-> 1..n]}
    \cup [raises : {FALSE}, name : {pattern_name}, flagged : SUBSET (1..n)]

\* Outcomes of the renderer after predicate outcome pred: it returns or
\* raises.  Where the predicate leaves nothing to draw only one is listed.
RenderOutcomes(pred, pattern_name) ==
    IF ~pred.raises /\ pred.name = pattern_name /\ pred.flagged # {}
      THEN BOOLEAN ELSE {FALSE}

\* func(df): the column written into the object at ref.
ApplyPredicate(heap, ref, pred) ==
    LET frame == Get(heap[ref])
        values == [i \in 1..Len(frame.rows) |-> i \in pred.flagged]
    IN  [heap EXCEPT ![ref] = Some(SetColumn(frame, pred.name, values))]

\* df = df.copy() left out: the predicate is handed the caller's object
NoCopy(heap, arg) == [heap |-> heap, ref |-> arg]

\* df = df.copy(): a new object with the contents of the argument
WorkingCopy(heap, arg) == [heap |-> [heap EXCEPT !["local"] = heap[arg]], ref |-> "local"]

\* df[pattern_name].sum()
ColumnSum(frame, name) ==
    Cardinality({i \in 1..Len(frame.rows) : Column(frame, name)[i] = TRUE})

\* the not-found test without the count of flagged rows
NotFoundOnlyAbsence(frame, pattern_name) == ~HasColumn(frame, pattern_name)

\* pattern_name not in df.columns or df[pattern_name].sum() == 0
NotFound(frame, pattern_name) ==
    ~HasColumn(frame, pattern_name) \/ ColumnSum(frame, pattern_name) = 0

\* the marker taken from the open price
MarkerFromOpen(frame, pattern_name) ==
    [index |-> Index(frame),
     values |-> [i \in 1..Len(frame.rows) |->
                   IF Column(frame, pattern_name)[i] = TRUE
                     THEN Some(frame.rows[i]["open"]) ELSE None]]

\* df['close'].where(df[pattern_name] == True): a series on the frame's
\* index, the close where the column is true and undefined elsewhere.
PatternPoints(frame, pattern_name) ==
    [index |-> Index(frame),
     values |-> [i \in 1..Len(frame.rows) |->
                   IF Column(frame, pattern_name)[i] = TRUE
                     THEN Some(frame.rows[i]["close"]) ELSE None]]

\* No pair: the call raised.
NoReturn == [buf |-> None, error |-> None]

\* the not-found return without its message
ReturnNoMessage == [buf |-> None, error |-> None]

\* return None, "Pattern not found in this dataset."
ReturnNotFound == [buf |-> None, error |-> Some(NotFoundMsg)]

\* The image mpf.plot writes: the chart of the frame with the markers
\* overlaid, under the title.
Image(frame, marker, title) == [data |-> frame, marker |-> marker, title |-> title]

\* What a call of detect_and_plot leaves: the heap afterwards, whether an
\* exception left the function, the returned pair, whether the renderer was
\* called, and the frame and marker series it worked on.
Outcome(h, raised, ret, rendered, frame, marker) ==
    [heap |-> h, raised |-> raised, ret |-> ret, rendered |-> rendered,
     frame |-> frame, marker |-> marker]

\* Lines 54-61: the renderer is handed the frame, the markers and the title;
\* it raises, or the image comes back in the buffer with no error.
Plot(h, df, pattern_points, title, render_raises) ==
    IF render_raises
      THEN Outcome(h, TRUE, NoReturn, TRUE, Some(df), Some(pattern_points))
      ELSE Outcome(h, FALSE,
                   [buf |-> Some(Image(df, pattern_points, title)), error |-> None],
                   TRUE, Some(df), Some(pattern_points))

\* Lines 50-53 on the frame df the predicate returned.
DetectOnFrame(h, df, pattern_name, render_raises) ==
    IF NotFound(df, pattern_name)
      THEN Outcome(h, FALSE, ReturnNotFound, FALSE, Some(df), None)
      ELSE Plot(h, df, PatternPoints(df, pattern_name), pattern_name, render_raises)

\* Line 48, df = func(df), on the working object w.ref of heap w.heap.
DetectOnCopy(w, pattern_name, pred, render_raises) ==
    IF pred.raises
      THEN Outcome(w.heap, TRUE, NoReturn, FALSE, None, None)
      ELSE DetectOnFrame(ApplyPredicate(w.heap, w.ref, pred),
                         Get(ApplyPredicate(w.heap, w.ref, pred)[w.ref]),
                         pattern_name, render_raises)

\* detect_and_plot(df, pattern_name) on the object at arg, with the outcomes
\* pred and render_raises of the predicate and the renderer.
detect_and_plot(heap, arg, pattern_name, pred, render_raises) ==
    DetectOnCopy(WorkingCopy(heap, arg), pattern_name, pred, render_raises)

(***************************************************************************)
(* The script.  One run takes the widget values and the session state and  *)
(* yields the new session state, the frames, the page and the widgets'     *)
(* states.                                                                 *)
(***************************************************************************)
VARIABLES
    pattern_name,     \* value of the pattern selectbox
    uploaded_file,    \* value of the file uploader (NoFile: nothing uploaded)
    example_selected, \* value of the example selectbox (NoFile: "None")
    start_w,          \* the start slider the last run drew: None, or its
                      \* bounds, default and value
    end_w,            \* the same for the end slider
    session_state,    \* st.session_state: each chart field absent or present
    heap,             \* the frames of the last run
    source_label,     \* source_label of the last run
    shown,            \* elements the last run put on the page
    image,            \* what st.image was handed in the last run, if called
    download,         \* what st.download_button was handed, if called
    call,             \* the call of detect_and_plot in the last run, if any
    slider_raises,    \* whether this Streamlit release raises on a slider
                      \* with min_value > max_value (else it widens the range)
    last_success      \* history: the latest call that returned a buffer

vars == <<pattern_name, uploaded_file, example_selected, start_w, end_w,
          session_state, heap, source_label, shown, image, download, call,
          slider_raises, last_success>>

EmptySession ==
    [chart_buffer |-> None, chart_label |-> None,
     chart_file_name |-> None, chart_download |-> None]

\* f"{pattern_name} Pattern Detected in: {source_label}"
ChartLabel(p, src) == <<p, " Pattern Detected in: ", src>>

\* f"{pattern_name}_detected.png"
ChartFileName(p) == <<p, "_detected.png">>

\* the four assignments with the caption left as it was
StoreBufferOnly(ss, buf, p, src) ==
    [ss EXCEPT !.chart_buffer = Some(buf),
               !.chart_file_name = Some(ChartFileName(p)),
               !.chart_download = Some(TRUE)]

\* The four session_state assignments of the else branch.
StoreChart(ss, buf, p, src) ==
    [chart_buffer |-> Some(buf),
     chart_label |-> Some(ChartLabel(p, src)),
     chart_file_name |-> Some(ChartFileName(p)),
     chart_download |-> Some(TRUE)]

\* the branch on error_msg taken away: the result is stored whatever it is
AlwaysStore(ss, ret, p, src) ==
    [session_state |-> StoreChart(ss, ret.buf, p, src), warned |-> FALSE]

\* if error_msg: st.warning(...) else: store the chart.  Yields the session
\* state and whether the warning was shown.
AfterDetect(ss, ret, p, src) ==
    IF IsSome(ret.error) /\ Get(ret.error) # ""
      THEN [session_state |-> ss, warned |-> TRUE]
      ELSE [session_state |-> StoreChart(ss, ret.buf, p, src), warned |-> FALSE]

\* st.slider(min_value, max_value, value): the widget's state w is kept from
\* the last run when the slider is the same widget (same arguments), and
\* its value is returned; a new widget returns its default.  On an empty
\* range (min_value > max_value) the widget raises or widens its bounds to
\* hold the default, depending on the Streamlit release.
slider(min_value, max_value, value, w, raises) ==
    LET lo == Min(Min(min_value, max_value), value)
        hi == Max(Max(min_value, max_value), value)
        same == /\ IsSome(w)
                /\ Get(w).min_value = min_value
                /\ Get(w).max_value = max_value
                /\ Get(w).default = value
        v == IF same THEN Get(w).value ELSE value
    IN  IF min_value > max_value /\ raises
          THEN [raised |-> TRUE, value |-> value, w |-> None]
          ELSE [raised |-> FALSE, value |-> v,
                w |-> Some([min_value |-> min_value, max_value |-> max_value,
                            default |-> value, lo |-> lo, hi |-> hi, value |-> v])]

\* Lines 118-122: the stored chart is drawn, with its download button.  A
\* stored buffer whose caption or flag is missing makes the attribute
\* access raise.
Display(r) ==
    LET ss == r.session_state
    IN  IF ~IsSome(ss.chart_buffer) THEN r
        ELSE IF ~IsSome(ss.chart_label) \/ ~IsSome(ss.chart_download)
          THEN [r EXCEPT !.shown = @ \cup {"exception"}]
        ELSE IF Get(ss.chart_download) = TRUE /\ ~IsSome(ss.chart_file_name)
          THEN [r EXCEPT !.shown = @ \cup {"image", "exception"},
                         !.image = Some([image |-> Get(ss.chart_buffer),
                                         caption |-> Get(ss.chart_label)])]
        ELSE IF Get(ss.chart_download) = TRUE
          THEN [r EXCEPT !.shown = @ \cup {"image", "download"},
                         !.image = Some([image |-> Get(ss.chart_buffer),
                                         caption |-> Get(ss.chart_label)]),
                         !.download = Some([data |-> Get(ss.chart_buffer),
                                            file_name |-> Get(ss.chart_file_name)])]
          ELSE [r EXCEPT !.shown = @ \cup {"image"},
                         !.image = Some([image |-> Get(ss.chart_buffer),
                                         caption |-> Get(ss.chart_label)])]

Externals(sl_raises, pred, render_raises) ==
    [slider_raises |-> sl_raises, pred |-> pred, render_raises |-> render_raises]

\* load_ohlcv_data on each file of the corpus, computed once.
Loaded == [f \in upload_files \cup example_files |-> load_ohlcv_data(f)]

\* The page and state of a run that has drawn nothing but the load
\* messages msgs.
Page(ss, df, label, msgs) ==
    [session_state |-> ss,
     heap |-> [df |-> df, df_subset |-> None, local |-> None],
     source_label |-> label, shown |-> msgs, image |-> None,
     download |-> None, call |-> None, start_w |-> None, end_w |-> None]

\* A run that ends in an uncaught exception after drawing r.
Aborted(r) == [r EXCEPT !.shown = @ \cup {"exception"}]

\* Lines 110-122 after detect_and_plot returned d.ret.
OnReturn(r, a) ==
    Display([r EXCEPT !.session_state = a.session_state,
                      !.shown = @ \cup (IF a.warned THEN {"warning"} ELSE {})])

\* Lines 106-122 with the button clicked: d is the outcome of the call.
OnCall(r, p, df_subset, pred, d) ==
    IF d.raised
      THEN Aborted([r EXCEPT !.heap = d.heap,
                             !.call = Some([arg |-> df_subset, pattern_name |-> p,
                                            pred |-> pred, raised |-> TRUE,
                                            ret |-> d.ret, rendered |-> d.rendered,
                                            frame |-> d.frame, marker |-> d.marker])])
      ELSE OnReturn([r EXCEPT !.heap = d.heap,
                              !.call = Some([arg |-> df_subset, pattern_name |-> p,
                                             pred |-> pred, raised |-> FALSE,
                                             ret |-> d.ret, rendered |-> d.rendered,
                                             frame |-> d.frame, marker |-> d.marker])],
                    AfterDetect(r.session_state, d.ret, p, r.source_label))

\* the stored chart drawn only in the run of the click
DisplayOnClickOnly(r, p, df_subset, clicked, ext) ==
    IF ~clicked
      THEN r
      ELSE OnCall(r, p, df_subset, ext.pred,
                  detect_and_plot(r.heap, "df_subset", p, ext.pred, ext.render_raises))

\* Lines 103-122: r is the run so far, with df_subset in its heap.
OnSubset(r, p, df_subset, clicked, ext) ==
    IF ~clicked
      THEN Display(r)
      ELSE OnCall(r, p, df_subset, ext.pred,
                  detect_and_plot(r.heap, "df_subset", p, ext.pred, ext.render_raises))

\* Lines 101-103: s2 is the end slider's answer.
OnEnd(r, p, df, start_row, s2, clicked, ext) ==
    IF s2.raised
      THEN Aborted(r)
      ELSE OnSubset([r EXCEPT !.end_w = s2.w,
                              !.heap.df_subset = Some(RowRange(df, start_row, s2.value)),
                              !.shown = @ \cup {"end_slider", "button"}],
                    p, RowRange(df, start_row, s2.value), clicked, ext)

\* Lines 100-101: s1 is the start slider's answer.
OnStart(r, p, df, s1, ew, clicked, ext) ==
    IF s1.raised
      THEN Aborted(r)
      ELSE OnEnd([r EXCEPT !.start_w = s1.w, !.shown = @ \cup {"start_slider"}],
                 p, df, s1.value,
                 slider(s1.value, Len(df.rows) - 1, Len(df.rows) - 1, ew,
                        ext.slider_raises),
                 clicked, ext)

\* Lines 96-124: the branch on df.
OnLoad(ss, p, file, loaded, msgs, sw, ew, clicked, ext) ==
    IF ~IsSome(loaded.df)
      THEN Page(ss, None, NoFile, msgs \cup {"info"})
      ELSE OnStart(Page(ss, loaded.df, file, msgs \cup {"rows"}), p, Get(loaded.df),
                   slider(0, Len(Get(loaded.df).rows) - 1, 0, sw, ext.slider_raises),
                   ew, clicked, ext)

\* Lines 77-94: the upload is loaded if there is one, else the example, if
\* one is selected; a load that raises is reported and leaves df None.
OnFile(ss, p, file, sw, ew, clicked, ext) ==
    IF file = NoFile
      THEN OnLoad(ss, p, file, [raised |-> FALSE, df |-> None], {},
                  sw, ew, clicked, ext)
      ELSE OnLoad(ss, p, file, Loaded[file],
                  IF Loaded[file].raised THEN {"error"} ELSE {"success"},
                  sw, ew, clicked, ext)

\* One run of the script (lines 65-124) with session state ss, pattern p,
\* upload up, example ex, slider states sw and ew, the button clicked or
\* not, and the outcomes ext of the external calls.
Script(ss, p, up, ex, sw, ew, clicked, ext) ==
    OnFile(ss, p, IF up # NoFile THEN up ELSE ex, sw, ew, clicked, ext)

(***************************************************************************)
(* Interactions.  Each one changes a widget (or clicks the button) and     *)
(* runs the script.                                                        *)
(***************************************************************************)
\* A predicate outcome for runs that call no predicate.
NoPred == [raises |-> FALSE, name |-> "result", flagged |-> {}]

\* The latest call that returned a buffer, after a run with outcome r.
Remember(r) ==
    IF /\ IsSome(r.call)
       /\ ~Get(r.call).raised
       /\ IsSome(Get(r.call).ret.buf)
      THEN Some([buf |-> Get(r.call).ret.buf,
                 pattern_name |-> Get(r.call).pattern_name,
                 source_label |-> r.source_label])
      ELSE last_success

\* The state after a run with outcome r under widget values p, up, ex.
Becomes(r, p, up, ex) ==
    /\ pattern_name' = p
    /\ uploaded_file' = up
    /\ example_selected' = ex
    /\ start_w' = r.start_w
    /\ end_w' = r.end_w
    /\ session_state' = r.session_state
    /\ heap' = r.heap
    /\ source_label' = r.source_label
    /\ shown' = r.shown
    /\ image' = r.image
    /\ download' = r.download
    /\ call' = r.call
    /\ slider_raises' = slider_raises
    /\ last_success' = Remember(r)

\* A run in which the button is not clicked.
Rerun(p, up, ex, sw, ew) ==
    Becomes(Script(session_state, p, up, ex, sw, ew, FALSE,
                   Externals(slider_raises, NoPred, FALSE)),
            p, up, ex)

\* The first run of a session: default widget values, empty session state.
Init ==
    LET r == Script(EmptySession, pattern_functions[1], NoFile, NoFile, None, None,
                    FALSE, Externals(FALSE, NoPred, FALSE))
    IN  /\ pattern_name = pattern_functions[1]
        /\ uploaded_file = NoFile
        /\ example_selected = NoFile
        /\ start_w = r.start_w
        /\ end_w = r.end_w
        /\ session_state = r.session_state
        /\ heap = r.heap
        /\ source_label = r.source_label
        /\ shown = r.shown
        /\ image = r.image
        /\ download = r.download
        /\ call = r.call
        /\ slider_raises \in BOOLEAN
        /\ last_success = None

\* The user picks another pattern.
SelectPattern ==
    \E p \in PatternNames \ {pattern_name} :
        Rerun(p, uploaded_file, example_selected, start_w, end_w)

\* The user uploads a file.
UploadFile ==
    \E f \in upload_files \ {uploaded_file} :
        Rerun(pattern_name, f, example_selected, start_w, end_w)

\* The user removes the uploaded file.
RemoveUpload ==
    /\ uploaded_file # NoFile
    /\ Rerun(pattern_name, NoFile, example_selected, start_w, end_w)

\* The user picks an example file, or "None".
ChooseExample ==
    \E f \in (example_files \cup {NoFile}) \ {example_selected} :
        Rerun(pattern_name, uploaded_file, f, start_w, end_w)

\* The user moves the start slider.
MoveStart ==
    /\ IsSome(start_w)
    /\ \E v \in (Get(start_w).lo .. Get(start_w).hi) \ {Get(start_w).value} :
          Rerun(pattern_name, uploaded_file, example_selected,
                Some([Get(start_w) EXCEPT !.value = v]), end_w)

\* The user moves the end slider.
MoveEnd ==
    /\ IsSome(end_w)
    /\ \E v \in (Get(end_w).lo .. Get(end_w).hi) \ {Get(end_w).value} :
          Rerun(pattern_name, uploaded_file, example_selected,
                start_w, Some([Get(end_w) EXCEPT !.value = v]))

\* The user clicks Detect Pattern.
ClickDetect ==
    /\ "button" \in shown
    /\ \E pred \in PredOutcomes(Len(Get(heap.df_subset).rows), pattern_name) :
       \E render_raises \in RenderOutcomes(pred, pattern_name) :
          Becomes(Script(session_state, pattern_name, uploaded_file,
                         example_selected, start_w, end_w, TRUE,
                         Externals(slider_raises, pred, render_raises)),
                  pattern_name, uploaded_file, example_selected)

Next ==
    \/ SelectPattern
    \/ UploadFile
    \/ RemoveUpload
    \/ ChooseExample
    \/ MoveStart
    \/ MoveEnd
    \/ ClickDetect

Spec == Init /\ [][Next]_vars

(***************************************************************************)
(* Properties.                                                             *)
(***************************************************************************)
\* The file the last run read: the upload if there is one, else the example.
CurrentFile == IF uploaded_file # NoFile THEN uploaded_file ELSE example_selected

\* The last run called detect_and_plot and the call returned.
Returned == IsSome(call) /\ ~Get(call).raised

\* The last run called detect_and_plot and got a buffer back.
Succeeded == Returned /\ IsSome(Get(call).ret.buf)

\* Rows of frame on which column name is true.
TrueRows(frame, name) ==
    {i \in 1..Len(frame.rows) : HasColumn(frame, name) /\ Column(frame, name)[i] = TRUE}

\* C1: the stored chart is exactly the buffer of the latest detection that
\* returned one: absent before the first, replaced by each, kept by a
\* detection that ends in "Pattern not found" and by every other run.
C1_StoredChartIsLatestSuccess ==
    IF IsSome(last_success)
      THEN session_state.chart_buffer = Some(Get(last_success).buf)
      ELSE session_state.chart_buffer = None

\* C1 witness: a detection that found nothing ran after a successful one
\* and the earlier chart is still stored.
C1_Witness ==
    /\ Returned
    /\ Get(call).ret.error = Some(NotFoundMsg)
    /\ IsSome(last_success)
    /\ session_state.chart_buffer = Some(Get(last_success).buf)

C3_ExactlyOneOfBufferAndError ==
    Returned =>
        \/ /\ IsSome(Get(call).ret.buf)
           /\ Get(call).ret.error = None
        \/ /\ Get(call).ret.buf = None
           /\ Get(call).ret.error = Some("Pattern not found in this dataset.")

\* C3 witness: a call returned a buffer.
C3_Witness == Succeeded /\ Get(call).ret.error = None

\* C4: when the frame the predicate returned has no column named as the
\* pattern, or that column is true on no row, the call returns
\* (None, "Pattern not found in this dataset.") and the renderer is not called.
C4_NotFoundWithoutRender ==
    (/\ IsSome(call)
     /\ IsSome(Get(call).frame)
     /\ TrueRows(Get(Get(call).frame), Get(call).pattern_name) = {}) =>
        /\ ~Get(call).raised
        /\ Get(call).ret = [buf |-> None,
                            error |-> Some("Pattern not found in this dataset.")]
        /\ ~Get(call).rendered

\* C4 witness: the predicate wrote its column under another name, on a
\* frame of two rows or more.
C4_Witness ==
    /\ IsSome(call)
    /\ IsSome(Get(call).frame)
    /\ ~HasColumn(Get(Get(call).frame), Get(call).pattern_name)
    /\ Len(Get(Get(call).frame).rows) >= 2
    /\ ~Get(call).rendered

C6_CallerSeriesUnchanged ==
    IsSome(call) =>
        /\ heap.df_subset = Some(Get(call).arg)
        /\ Get(call).arg.extra = <<>>
        /\ heap.df = Loaded[CurrentFile].df
        /\ ~Get(call).pred.raises =>
              HasColumn(Get(heap.local), Get(call).pred.name)

\* C6 witness: the predicate wrote a column and the caller's slice has none.
C6_Witness ==
    /\ Succeeded
    /\ HasColumn(Get(heap.local), pattern_name)
    /\ ~HasColumn(Get(heap.df_subset), pattern_name)

\* The table of file f lacks a required column or holds a cell that cannot
\* be coerced.
Malformed(f) ==
    LET raw == read_csv(f)
    IN  \/ AllCols \ raw.columns # {}
        \/ \E i \in 1..Len(raw.rows) :
             \/ \E c \in NumericCols \cap raw.columns : raw.rows[i][c].kind # "num"
             \/ /\ "timestamp" \in raw.columns
                /\ raw.rows[i]["timestamp"].kind # "date"

\* C7: when the source lacks a required column or holds a value that cannot
\* be coerced, the run holds no series, reports the error, offers no row
\* range and no detection, and uses no part of the data.
C7_LoadFailureLeavesNoSeries ==
    (CurrentFile # NoFile /\ Malformed(CurrentFile)) =>
        /\ heap.df = None
        /\ heap.df_subset = None
        /\ "error" \in shown
        /\ shown \cap {"success", "rows", "start_slider", "end_slider", "button"} = {}
        /\ start_w = None
        /\ end_w = None
        /\ call = None

\* C7 witness: an upload without the volume column, with a well-formed
\* example selected behind it.
C7_Witness ==
    /\ uploaded_file = <<"novolume", 2>>
    /\ example_selected = <<"rows", 2>>
    /\ "error" \in shown

\* C8: for a series of n rows and 0 <= start <= end <= n-1 the selected
\* range is rows start..end in order; (0, n-1) gives the whole series and
\* (k, k) the k-th row alone.
C8_RowRangeInclusive ==
    (/\ IsSome(heap.df_subset)
     /\ 0 <= Get(start_w).value
     /\ Get(start_w).value <= Get(end_w).value
     /\ Get(end_w).value <= Len(Get(heap.df).rows) - 1) =>
        LET df == Get(heap.df)
            sub == Get(heap.df_subset)
            start_row == Get(start_w).value
            end_row == Get(end_w).value
        IN  /\ Len(sub.rows) = end_row - start_row + 1
            /\ \A i \in 1..Len(sub.rows) : sub.rows[i] = df.rows[start_row + i]
            /\ (start_row = 0 /\ end_row = Len(df.rows) - 1) => sub = df
            /\ start_row = end_row => sub.rows = <<df.rows[start_row + 1]>>

\* C8 witness: the second row alone is selected from a series of two rows
\* or more.
C8_Witness ==
    /\ IsSome(heap.df_subset)
    /\ Get(start_w).value = 1
    /\ Get(end_w).value = 1
    /\ Len(Get(heap.df).rows) >= 2
    /\ Len(Get(heap.df_subset).rows) = 1

\* C9: whenever the run calls detect_and_plot, the loaded series has a row
\* and 0 <= start_row <= end_row <= len-1, so the series passed has a row.
C9_NeverDetectOnEmptySeries ==
    IsSome(call) =>
        /\ Len(Get(heap.df).rows) >= 1
        /\ 0 <= Get(start_w).value
        /\ Get(start_w).value <= Get(end_w).value
        /\ Get(end_w).value <= Len(Get(heap.df).rows) - 1
        /\ Len(Get(call).arg.rows) >= 1

\* C10: the four chart fields are all absent or all present, and when
\* present the file name is "<p>_detected.png" and the caption names p and
\* the source, p and the source being those of the detection that produced
\* the stored buffer.
C10_ChartFieldsConsistent ==
    \/ /\ session_state = EmptySession
       /\ last_success = None
    \/ /\ IsSome(last_success)
       /\ session_state.chart_buffer = Some(Get(last_success).buf)
       /\ IsSome(session_state.chart_label)
       /\ Get(session_state.chart_label)[1] = Get(last_success).pattern_name
       /\ Get(session_state.chart_label)[3] = Get(last_success).source_label
       /\ session_state.chart_file_name =
             Some(<<Get(last_success).pattern_name, "_detected.png">>)
       /\ session_state.chart_download = Some(TRUE)
       /\ Get(Get(last_success).buf).title = Get(last_success).pattern_name

\* C10 witness: a chart is stored while another pattern is selected and
\* another file is loaded than those of its detection.
C10_Witness ==
    /\ IsSome(last_success)
    /\ IsSome(session_state.chart_buffer)
    /\ Get(last_success).pattern_name # pattern_name
    /\ IsSome(heap.df)
    /\ Get(last_success).source_label # source_label

====
